---- MODULE Spec2Model ----
(***************************************************************************)
(* Model of market.py: the Yandex Market synchronisation script.           *)
(*                                                                         *)
(* Python values are modelled by what the code does with them:             *)
(*   - a Python str is a sequence of one-character strings;                *)
(*   - a raw cell of the downloaded inventory is a tagged value, a str, an *)
(*     int or None (what dict.get returns for a missing key);              *)
(*   - a list is a sequence, and a list that is mutated in place is a      *)
(*     variable holding the list object's current content.                 *)
(***************************************************************************)
EXTENDS Integers, Sequences, FiniteSets, TLC

VARIABLES
    watch_remnants,   \* the inventory returned by download_stock()
    server,           \* per campaign: page token -> response of the listing endpoint
    entry,            \* the function that was invoked
    pc,               \* position in the invoked function
    camp,             \* campaign being synchronised ("FBS" or "DBS")
    page,             \* get_offer_ids: the local `page`
    product_list,     \* get_offer_ids: the local `product_list`
    offer_ids,        \* the list object bound to `offer_ids`
    given,            \* content of that list object when it was handed over
    stocks,           \* the local `stocks`
    stocks2,          \* result of a second create_stocks call
    prices,           \* the local `prices`
    todo,             \* batches of list(divide(...)) not yet submitted
    log,              \* calls made and HTTP requests issued, in order
    now,              \* the UTC clock read by create_stocks
    npages,           \* get_offer_ids: pages requested by the running call
    outcome           \* how the invoked function ended

vars == <<watch_remnants, server, entry, pc, camp, page, product_list, offer_ids,
          given, stocks, stocks2, prices, todo, log, now, npages, outcome>>

-----------------------------------------------------------------------------
(* Bounds of the model.                                                    *)

MaxInv == 2        \* longest inventory
MaxIds == 3        \* longest offer-id list handed to a function
MaxClock == 2      \* latest clock reading

-----------------------------------------------------------------------------
(* Python values.                                                          *)

PyStr(s) == [t |-> "str", s |-> s, n |-> 0]
PyInt(n) == [t |-> "int", s |-> <<>>, n |-> n]
PyNone == [t |-> "none", s |-> <<>>, n |-> 0]

Digits == <<"0", "1", "2", "3", "4", "5", "6", "7", "8", "9">>

IsDigit(c) == \E d \in 1..10 : Digits[d] = c

DigitVal(c) == (CHOOSE d \in 1..10 : Digits[d] = c) - 1

RECURSIVE NatStr(_)
NatStr(n) ==
    IF n < 10 THEN <<Digits[n + 1]>>
    ELSE NatStr(n \div 10) \o <<Digits[(n % 10) + 1]>>

\* str(x) of a str, an int or None
str(v) ==
    CASE v.t = "str" -> v.s
      [] v.t = "int" -> IF v.n < 0 THEN <<"-">> \o NatStr(-v.n) ELSE NatStr(v.n)
      [] OTHER -> <<"N", "o", "n", "e">>

RECURSIVE DigitsVal(_)
DigitsVal(s) ==
    IF s = <<>> THEN 0
    ELSE 10 * DigitsVal(SubSeq(s, 1, Len(s) - 1)) + DigitVal(s[Len(s)])

RECURSIVE LStrip(_)
LStrip(s) == IF s # <<>> /\ s[1] = " " THEN LStrip(Tail(s)) ELSE s

RECURSIVE RStrip(_)
RStrip(s) ==
    IF s # <<>> /\ s[Len(s)] = " " THEN RStrip(SubSeq(s, 1, Len(s) - 1)) ELSE s

AllDigits(s) == s # <<>> /\ \A k \in 1..Len(s) : IsDigit(s[k])

\* int(x): [ok |-> FALSE] stands for the ValueError / TypeError that int raises
int(v) ==
    CASE v.t = "int" -> [ok |-> TRUE, v |-> v.n]
      [] v.t = "none" -> [ok |-> FALSE, v |-> 0]
      [] OTHER ->
           LET s == RStrip(LStrip(v.s))
               signed == s # <<>> /\ s[1] \in {"+", "-"}
               body == IF signed THEN Tail(s) ELSE s
           IN  IF AllDigits(body)
               THEN [ok |-> TRUE,
                     v |-> IF signed /\ s[1] = "-" THEN -DigitsVal(body)
                           ELSE DigitsVal(body)]
               ELSE [ok |-> FALSE, v |-> 0]

Elems(s) == { s[k] : k \in 1..Len(s) }

\* x in lst
In(x, lst) == \E k \in 1..Len(lst) : lst[k] = x

\* lst.remove(x): drops the first occurrence of x (x is in lst where it is called)
remove_nothing(lst, x) == lst

remove(lst, x) ==
    LET k == CHOOSE j \in 1..Len(lst) :
                 lst[j] = x /\ \A h \in 1..(j - 1) : lst[h] # x
    IN  SubSeq(lst, 1, k - 1) \o SubSeq(lst, k + 1, Len(lst))

-----------------------------------------------------------------------------
(* create_stocks                                                           *)

Stock(sku, warehouse_id, count, date) ==
    [sku |-> sku, warehouseId |-> warehouse_id,
     items |-> <<[count |-> count, type |-> "FIT", updatedAt |-> date]>>]

\* the if / elif / else that maps a record's quantity to the stock count
StockCountLiteral(watch) ==
    LET count == str(watch.Kolichestvo)
    IN  IF count = <<">", "1", "0">> THEN [ok |-> TRUE, v |-> 100]
        ELSE int(watch.Kolichestvo)

StockCountSkipping(watch) ==
    LET count == str(watch.Kolichestvo)
    IN  IF count = <<">", "1", "0">> THEN [ok |-> TRUE, v |-> 100]
        ELSE IF count = <<"1">> THEN [ok |-> TRUE, v |-> 0]
        ELSE IF int(watch.Kolichestvo).ok THEN int(watch.Kolichestvo)
        ELSE [ok |-> TRUE, v |-> 0]

StockCount(watch) ==
    LET count == str(watch.Kolichestvo)
    IN  IF count = <<">", "1", "0">> THEN [ok |-> TRUE, v |-> 100]
        ELSE IF count = <<"1">> THEN [ok |-> TRUE, v |-> 0]
        ELSE int(watch.Kolichestvo)

\* one iteration of the first loop; st is the loop's state so far
\* (raised: an exception left the loop; offer_ids: the list object's content)
MatchStep(st, watch, warehouse_id, date) ==
    LET code == str(watch.Kod)
    IN  IF In(code, st.offer_ids)
        THEN LET stock == StockCount(watch)
             IN  IF ~stock.ok
                 THEN [st EXCEPT !.raised = TRUE]
                 ELSE [raised |-> FALSE,
                       stocks |-> Append(st.stocks,
                                         Stock(code, warehouse_id, stock.v, date)),
                       offer_ids |-> remove(st.offer_ids, code)]
        ELSE st

\* the first loop over records lo..hi, in order, stopping at an exception
RECURSIVE MatchLoop(_, _, _, _, _, _)
MatchLoop(remnants, lo, hi, st, warehouse_id, date) ==
    IF st.raised \/ lo > hi THEN st
    ELSE IF lo = hi THEN MatchStep(st, remnants[lo], warehouse_id, date)
    ELSE LET mid == (lo + hi) \div 2
             left == MatchLoop(remnants, lo, mid, st, warehouse_id, date)
         IN  MatchLoop(remnants, mid + 1, hi, left, warehouse_id, date)

\* the second loop: one zero update per id left in the list
Missing(ids, warehouse_id, date) ==
    [k \in 1..Len(ids) |-> Stock(ids[k], warehouse_id, 0, date)]

\* create_stocks: the returned list (or raised), and the list object afterwards
create_stocks(remnants, ids, warehouse_id, date) ==
    LET m == MatchLoop(remnants, 1, Len(remnants),
                       [raised |-> FALSE, stocks |-> <<>>, offer_ids |-> ids],
                       warehouse_id, date)
    IN  IF m.raised THEN m
        ELSE [raised |-> FALSE,
              stocks |-> m.stocks \o Missing(m.offer_ids, warehouse_id, date),
              offer_ids |-> m.offer_ids]

-----------------------------------------------------------------------------
(* create_prices                                                           *)

RECURSIVE BeforeDot(_)
BeforeDot(s) ==
    IF s = <<>> \/ s[1] = "." THEN <<>> ELSE <<s[1]>> \o BeforeDot(Tail(s))

\* seller.price_conversion: the part before the first ".", digits only
\* ([ok |-> FALSE]: the value has no split method)
price_conversion(price) ==
    IF price.t # "str" THEN [ok |-> FALSE, s |-> <<>>]
    ELSE [ok |-> TRUE, s |-> SelectSeq(BeforeDot(price.s), IsDigit)]

\* int(price_conversion(watch.get("Цена")))
PriceValue(watch) ==
    LET conv == price_conversion(watch.Tsena)
    IN  IF conv.ok THEN int(PyStr(conv.s)) ELSE [ok |-> FALSE, v |-> 0]

Price(id, value) == [id |-> id, price |-> [value |-> value, currencyId |-> "RUR"]]

\* the test that decides whether a record gets a price
ListedAlways(watch, ids) == TRUE

Listed(watch, ids) == In(str(watch.Kod), ids)

\* one iteration of the loop
PriceStep(st, watch, ids) ==
    IF Listed(watch, ids)
    THEN LET value == PriceValue(watch)
         IN  IF ~value.ok
             THEN [st EXCEPT !.raised = TRUE]
             ELSE [raised |-> FALSE,
                   prices |-> Append(st.prices, Price(str(watch.Kod), value.v))]
    ELSE st

\* the loop over records lo..hi, in order, stopping at an exception
RECURSIVE PriceLoop(_, _, _, _, _)
PriceLoop(remnants, lo, hi, st, ids) ==
    IF st.raised \/ lo > hi THEN st
    ELSE IF lo = hi THEN PriceStep(st, remnants[lo], ids)
    ELSE LET mid == (lo + hi) \div 2
             left == PriceLoop(remnants, lo, mid, st, ids)
         IN  PriceLoop(remnants, mid + 1, hi, left, ids)

create_prices(remnants, ids) ==
    PriceLoop(remnants, 1, Len(remnants), [raised |-> FALSE, prices |-> <<>>], ids)

-----------------------------------------------------------------------------
(* Inputs.                                                                 *)

Watch(kod, kolichestvo, tsena) ==
    [Kod |-> kod, Kolichestvo |-> kolichestvo, Tsena |-> tsena]

P1990 == PyStr(<<"1", " ", "9", "9", "0", ".", "0", "0">>)
P850 == PyStr(<<"8", "5", "0">>)
PNone == PyStr(<<"n", "/", "a">>)

\* rows of the downloaded sheet: codes and quantities as str or int cells
Records ==
    { Watch(PyStr(<<"A">>), PyStr(<<">", "1", "0">>), P1990),
      Watch(PyStr(<<"A">>), PyStr(<<"1">>), P850),
      Watch(PyStr(<<"B">>), PyInt(7), P850),
      Watch(PyStr(<<"B">>), PyStr(<<"a", "b", "c">>), P850),
      Watch(PyInt(7), PyInt(1), PNone),
      Watch(PyStr(<<"7">>), PyStr(<<" ", "1", "2">>), P1990),
      Watch(PyStr(<<"C">>), PyStr(<<"7", ".", "5">>), P850) }

\* shopSku values the marketplace knows
Ids == { <<"A">>, <<"B">>, <<"7">>, <<"Z">> }

SeqsUpTo(S, n) == UNION { [1..k -> S] : k \in 0..n }

Distinct(s) == \A i, j \in 1..Len(s) : i # j => s[i] # s[j]

Inventories == SeqsUpTo(Records, MaxInv)

IdLists == { s \in SeqsUpTo(Ids, MaxIds) : Distinct(s) }

Warehouse(campaign) ==
    IF campaign = "FBS" THEN "WAREHOUSE_FBS_ID" ELSE "WAREHOUSE_DBS_ID"

\* utcnow() read at or after the last reading, in whole seconds
Clock == { d \in now..(now + 1) : d <= MaxClock }

-----------------------------------------------------------------------------
(* The functions called directly on a list the caller holds.               *)

fnIdle == <<server, entry, camp, page, product_list, todo, log, npages>>

InitFn ==
    /\ watch_remnants \in Inventories
    /\ given \in IdLists
    /\ offer_ids = given
    /\ server = <<>>
    /\ entry = "call"
    /\ pc = "fn_start"
    /\ camp = "FBS"
    /\ page = <<>>
    /\ product_list = <<>>
    /\ stocks = <<>>
    /\ stocks2 = <<>>
    /\ prices = <<>>
    /\ todo = <<>>
    /\ log = <<>>
    /\ now = 1
    /\ npages = 0
    /\ outcome = "running"

\* stocks = create_stocks(watch_remnants, offer_ids, warehouse_id)
FnCreateStocks ==
    /\ pc = "fn_start"
    /\ \E date \in Clock :
         LET r == create_stocks(watch_remnants, offer_ids, Warehouse(camp), date)
         IN  /\ now' = date
             /\ offer_ids' = r.offer_ids
             /\ IF r.raised
                THEN /\ pc' = "fn_raised"
                     /\ outcome' = "raised"
                     /\ UNCHANGED stocks
                ELSE /\ pc' = "fn_stocks"
                     /\ stocks' = r.stocks
                     /\ UNCHANGED outcome
    /\ UNCHANGED <<watch_remnants, given, stocks2, prices>>
    /\ UNCHANGED fnIdle

\* a second create_stocks(watch_remnants, offer_ids, warehouse_id) on the same list
FnCreateStocksSameList ==
    /\ pc = "fn_stocks"
    /\ \E date \in Clock :
         LET r == create_stocks(watch_remnants, offer_ids, Warehouse(camp), date)
         IN  /\ now' = date
             /\ offer_ids' = r.offer_ids
             /\ IF r.raised
                THEN /\ pc' = "fn_raised"
                     /\ outcome' = "raised"
                     /\ UNCHANGED stocks2
                ELSE /\ pc' = "fn_same"
                     /\ stocks2' = r.stocks
                     /\ UNCHANGED outcome
    /\ UNCHANGED <<watch_remnants, given, stocks, prices>>
    /\ UNCHANGED fnIdle

\* a second create_stocks call on a new list with the content first handed over
FnCreateStocksEqualList ==
    /\ pc = "fn_stocks"
    /\ \E date \in Clock :
         LET r == create_stocks(watch_remnants, given, Warehouse(camp), date)
         IN  /\ now' = date
             /\ IF r.raised
                THEN /\ pc' = "fn_raised"
                     /\ outcome' = "raised"
                     /\ UNCHANGED stocks2
                ELSE /\ pc' = "fn_equal"
                     /\ stocks2' = r.stocks
                     /\ UNCHANGED outcome
    /\ UNCHANGED <<watch_remnants, given, offer_ids, stocks, prices>>
    /\ UNCHANGED fnIdle

\* prices = create_prices(watch_remnants, offer_ids)
FnCreatePrices ==
    /\ pc = "fn_start"
    /\ LET r == create_prices(watch_remnants, offer_ids)
       IN  IF r.raised
           THEN /\ pc' = "fn_raised"
                /\ outcome' = "raised"
                /\ UNCHANGED prices
           ELSE /\ pc' = "fn_prices"
                /\ prices' = r.prices
                /\ UNCHANGED outcome
    /\ UNCHANGED <<watch_remnants, given, offer_ids, stocks, stocks2, now>>
    /\ UNCHANGED fnIdle

NextFn ==
    \/ FnCreateStocks
    \/ FnCreateStocksSameList
    \/ FnCreateStocksEqualList
    \/ FnCreatePrices

SpecFn == InitFn /\ [][NextFn]_vars

-----------------------------------------------------------------------------
(* The marketplace and the batching helper.                                *)

Campaigns == {"FBS", "DBS"}

Limit == 200              \* "limit" sent by get_product_list
StockBatchSize == 2000    \* divide(stocks, 2000)
PriceBatchSize == 500     \* divide(prices, 500)

MaxPages == 12     \* most pages one get_offer_ids call may request

Min(a, b) == IF a < b THEN a ELSE b

\* seller.divide(lst, n): the slices lst[i:i + n] for i = 0, n, 2n, ...
divide(lst, n) ==
    [k \in 1..((Len(lst) + n - 1) \div n) |->
        SubSeq(lst, (k - 1) * n + 1, Min(k * n, Len(lst)))]

\* list(divide(stocks, 2000))
StockBatchesOversized(list) == divide(list, StockBatchSize + 1)

StockBatches(list) == divide(list, StockBatchSize)

\* list(divide(prices, 500))
PriceBatches(list) == divide(list, PriceBatchSize)

\* body of a listing response: response_object.get("result")
Result(ids, next) ==
    [offerMappingEntries |-> [k \in 1..Len(ids) |-> [offer |-> [shopSku |-> ids[k]]]],
     paging |-> [nextPageToken |-> next]]

\* a listing that serves the catalogue `cat` in pages of `size` entries, the
\* token of a later page being its offset; the last page carries `last`
\* (None for a missing nextPageToken, or an empty token)
PageToken(k, size) == IF k = 0 THEN <<>> ELSE NatStr(k * size)

Listing(cat, size, last) ==
    LET n == IF cat = <<>> THEN 1 ELSE (Len(cat) + size - 1) \div size
    IN  [t \in { PageToken(k, size) : k \in 0..(n - 1) } |->
            LET k == CHOOSE h \in 0..(n - 1) : PageToken(h, size) = t
            IN  Result(SubSeq(cat, k * size + 1, Min((k + 1) * size, Len(cat))),
                       IF k = n - 1 THEN last ELSE PyStr(PageToken(k + 1, size)))]

\* `not x`
Falsy(v) ==
    \/ v.t = "none"
    \/ v.t = "str" /\ v.s = <<>>
    \/ v.t = "int" /\ v.n = 0

\* one entry of the log
Event(ev, campaign, tok, body, status) ==
    [ev |-> ev, camp |-> campaign, tok |-> tok, body |-> body, status |-> status]

-----------------------------------------------------------------------------
(* main, upload_stocks and upload_prices.                                  *)

runIdle == <<watch_remnants, server, entry, stocks2>>

\* exceptions a request can raise: raise_for_status, or the transport
Failures == {"HTTPError", "ReadTimeout", "ConnectionError"}

\* main's except clauses print and end the run; a coroutine lets it through
Handled(exc) ==
    IF entry # "main" THEN exc
    ELSE IF exc = "ReadTimeout" THEN "printed timeout"
    ELSE IF exc = "ConnectionError" THEN "printed connection error"
    ELSE "printed ERROR_2"

\* get_offer_ids: one turn of the while loop with get_product_list answering,
\* and, when the token is falsy, the rest of the function and the return
GetProductListTokenIgnored(tok) == PyStr(<<>>)

GetProductListToken(tok) == tok

get_product_list ==
    /\ pc = "fetch"
    /\ npages < MaxPages
    /\ page.s \in DOMAIN server[camp]
    /\ LET some_prod == server[camp][GetProductListToken(page).s]
           list == product_list \o some_prod.offerMappingEntries
           next == some_prod.paging.nextPageToken
           ids == [k \in 1..Len(list) |-> list[k].offer.shopSku]
           request == Event("GET", camp, GetProductListToken(page), <<>>, "ok")
       IN  /\ product_list' = list
           /\ page' = next
           /\ npages' = npages + 1
           /\ IF Falsy(next)
              THEN /\ offer_ids' = ids
                   /\ given' = ids
                   /\ log' = log \o <<request, Event("get_offer_ids", camp, next, ids, "ok")>>
                   /\ pc' = IF entry = "upload_prices" THEN "create_prices"
                            ELSE "create_stocks"
              ELSE /\ log' = Append(log, request)
                   /\ UNCHANGED <<offer_ids, given, pc>>
    /\ UNCHANGED <<camp, stocks, prices, todo, now, outcome>>
    /\ UNCHANGED runIdle

\* a request of get_product_list, update_stocks or update_price raises
RequestFails ==
    /\ \/ pc = "fetch" /\ npages < MaxPages
       \/ pc \in {"put", "post"} /\ todo # <<>>
    /\ \E exc \in Failures :
         /\ log' = Append(log,
                Event(CASE pc = "fetch" -> "GET" [] pc = "put" -> "PUT" [] OTHER -> "POST",
                      camp, IF pc = "fetch" THEN page ELSE PyNone,
                      IF pc = "fetch" THEN <<>> ELSE Head(todo), exc))
         /\ outcome' = Handled(exc)
    /\ pc' = "done"
    /\ UNCHANGED <<camp, page, product_list, offer_ids, given, stocks, prices, todo,
                   now, npages>>
    /\ UNCHANGED runIdle

\* stocks = create_stocks(watch_remnants, offer_ids, warehouse_id), then
\* list(divide(stocks, 2000))
CreateStocks ==
    /\ pc = "create_stocks"
    /\ \E date \in Clock :
         LET r == create_stocks(watch_remnants, offer_ids, Warehouse(camp), date)
         IN  /\ now' = date
             /\ offer_ids' = r.offer_ids
             /\ log' = Append(log, Event("create_stocks", camp, PyNone, offer_ids,
                                         IF r.raised THEN "ValueError" ELSE "ok"))
             /\ IF r.raised
                THEN /\ pc' = "done"
                     /\ outcome' = Handled("ValueError")
                     /\ UNCHANGED <<stocks, todo>>
                ELSE /\ pc' = "put"
                     /\ stocks' = r.stocks
                     /\ todo' = StockBatches(r.stocks)
                     /\ UNCHANGED outcome
    /\ UNCHANGED <<camp, page, product_list, given, prices, npages>>
    /\ UNCHANGED runIdle

\* update_stocks(some_stock, campaign_id, market_token) for the next batch
update_stocks ==
    /\ pc = "put"
    /\ todo # <<>>
    /\ log' = Append(log, Event("PUT", camp, PyNone, Head(todo), "ok"))
    /\ todo' = Tail(todo)
    /\ UNCHANGED <<camp, pc, page, product_list, offer_ids, given, stocks, prices,
                   now, npages, outcome>>
    /\ UNCHANGED runIdle

\* main, after the stock batches: upload_prices(...) is called without
\* await, which only makes a coroutine object; then the DBS part, or the end
UploadPricesNotAwaited ==
    /\ entry = "main"
    /\ pc = "put"
    /\ todo = <<>>
    /\ log' = Append(log, Event("coroutine upload_prices", camp, PyNone, <<>>, "ok"))
    /\ IF camp = "FBS"
       THEN /\ camp' = "DBS"
            /\ pc' = "fetch"
            /\ page' = PyStr(<<>>)
            /\ product_list' = <<>>
            /\ npages' = 0
            /\ UNCHANGED outcome
       ELSE /\ pc' = "done"
            /\ outcome' = "returned"
            /\ UNCHANGED <<camp, page, product_list, npages>>
    /\ UNCHANGED <<offer_ids, given, stocks, prices, todo, now>>
    /\ UNCHANGED runIdle

\* upload_stocks, after the stock batches: return not_empty, stocks
NonZero(stock) == stock.items[1].count # 0

UploadStocksReturns ==
    /\ entry = "upload_stocks"
    /\ pc = "put"
    /\ todo = <<>>
    /\ log' = Append(log, Event("return", camp, PyNone,
                                <<SelectSeq(stocks, NonZero), stocks>>, "ok"))
    /\ pc' = "done"
    /\ outcome' = "returned"
    /\ UNCHANGED <<camp, page, product_list, offer_ids, given, stocks, prices, todo,
                   now, npages>>
    /\ UNCHANGED runIdle

\* upload_prices: prices = create_prices(watch_remnants, offer_ids), then
\* list(divide(prices, 500))
CreatePrices ==
    /\ pc = "create_prices"
    /\ LET r == create_prices(watch_remnants, offer_ids)
       IN  /\ log' = Append(log, Event("create_prices", camp, PyNone, offer_ids,
                                       IF r.raised THEN "ValueError" ELSE "ok"))
           /\ IF r.raised
              THEN /\ pc' = "done"
                   /\ outcome' = Handled("ValueError")
                   /\ UNCHANGED <<prices, todo>>
              ELSE /\ pc' = "post"
                   /\ prices' = r.prices
                   /\ todo' = PriceBatches(r.prices)
                   /\ UNCHANGED outcome
    /\ UNCHANGED <<camp, page, product_list, offer_ids, given, stocks, now, npages>>
    /\ UNCHANGED runIdle

\* update_price(some_prices, campaign_id, market_token) for the next batch
update_price ==
    /\ pc = "post"
    /\ todo # <<>>
    /\ log' = Append(log, Event("POST", camp, PyNone, Head(todo), "ok"))
    /\ todo' = Tail(todo)
    /\ UNCHANGED <<camp, pc, page, product_list, offer_ids, given, stocks, prices,
                   now, npages, outcome>>
    /\ UNCHANGED runIdle

\* upload_prices, after the price batches: return prices
UploadPricesReturns ==
    /\ pc = "post"
    /\ todo = <<>>
    /\ log' = Append(log, Event("return", camp, PyNone, prices, "ok"))
    /\ pc' = "done"
    /\ outcome' = "returned"
    /\ UNCHANGED <<camp, page, product_list, offer_ids, given, stocks, prices, todo,
                   now, npages>>
    /\ UNCHANGED runIdle

Next ==
    \/ get_product_list
    \/ RequestFails
    \/ CreateStocks
    \/ update_stocks
    \/ UploadPricesNotAwaited
    \/ UploadStocksReturns
    \/ CreatePrices
    \/ update_price
    \/ UploadPricesReturns

\* what a run starts from, given the inventory and the marketplace:
\* main at its first get_offer_ids call (campaign FBS), or a coroutine of
\* upload_stocks / upload_prices being run for some campaign
Start(inventories, servers) ==
    /\ watch_remnants \in inventories
    /\ server \in servers
    /\ entry \in {"main", "upload_stocks", "upload_prices"}
    /\ camp \in Campaigns
    /\ entry = "main" => camp = "FBS"
    /\ pc = "fetch"
    /\ page = PyStr(<<>>)
    /\ product_list = <<>>
    /\ offer_ids = <<>>
    /\ given = <<>>
    /\ stocks = <<>>
    /\ stocks2 = <<>>
    /\ prices = <<>>
    /\ todo = <<>>
    /\ log = <<>>
    /\ now = 1
    /\ npages = 0
    /\ outcome = "running"

\* marketplaces that keep their contract: per campaign a catalogue of distinct
\* ids, served in pages of 2 entries ending with no nextPageToken, or in one
\* page of up to `limit` entries ending with an empty token
RunIds == << <<"A">>, <<"B">>, <<"Z">> >>

Catalogues ==
    { SelectSeq(RunIds, LAMBDA id : id \in chosen) :
        chosen \in { c \in SUBSET Elems(RunIds) : Cardinality(c) <= MaxIds } }

Markets ==
    { [c \in Campaigns |-> Listing(cat[c], 2, PyNone)] : cat \in [Campaigns -> Catalogues] }
    \cup
    { [c \in Campaigns |-> Listing(cat[c], Limit, PyStr(<<>>))] :
        cat \in [Campaigns -> Catalogues] }

RunRecords ==
    { Watch(PyStr(<<"A">>), PyStr(<<">", "1", "0">>), P1990),
      Watch(PyStr(<<"B">>), PyInt(7), P850),
      Watch(PyStr(<<"B">>), PyStr(<<"a", "b", "c">>), P850),
      Watch(PyStr(<<"C">>), PyStr(<<"7", ".", "5">>), P850) }

Init == Start(SeqsUpTo(RunRecords, MaxInv), Markets)

Spec == Init /\ [][Next]_vars

\* marketplaces that answer anything: any page under any token, followed by
\* any token, a missing one or an empty one (pages may repeat and chains loop)
Tokens == { <<>>, <<"t", "1">>, <<"t", "2">> }

Answers ==
    { Result(ids, next) :
        ids \in { <<>>, << <<"A">>, <<"B">> >> },
        next \in { PyNone } \cup { PyStr(t) : t \in Tokens } }

InitPages ==
    Start({ << Watch(PyStr(<<"A">>), PyStr(<<">", "1", "0">>), P1990),
               Watch(PyStr(<<"B">>), PyInt(7), P850) >> },
          { [c \in Campaigns |-> script] : script \in [Tokens -> Answers] })

SpecPages == InitPages /\ [][Next]_vars

\* a catalogue and an inventory too long for one batch, and an empty catalogue
BigIds == 2001     \* ids in the long catalogue
BigInv == 1001     \* records in the long inventory, all of them listed

BigCatalogue == [k \in 1..BigIds |-> NatStr(k)]

BigInventory == [k \in 1..BigInv |-> Watch(PyInt(k), PyInt(k % 3), P850)]

InitBig ==
    Start({ BigInventory },
          { [c \in Campaigns |-> Listing(BigCatalogue, Limit, PyNone)],
            [c \in Campaigns |-> Listing(<<>>, Limit, PyNone)] })

SpecBig == InitBig /\ [][Next]_vars

-----------------------------------------------------------------------------
(* Properties of create_stocks and create_prices (checked under SpecFn).   *)

\* str(code) of every record, in input order
Codes(remnants) == [i \in 1..Len(remnants) |-> str(remnants[i].Kod)]

\* the (sku, count) pairs of a stock list: order and updatedAt dropped
Updates(list) == { <<list[k].sku, list[k].items[1].count>> : k \in 1..Len(list) }

\* C1: create_stocks returns as many updates as the list handed over held
\* ids, and every id of that list is the sku of exactly one update (none
\* left out, none twice, no sku from elsewhere).
C1_OneUpdatePerId ==
    pc = "fn_stocks" =>
        /\ Len(stocks) = Len(given)
        /\ \A id \in Elems(given) :
             Cardinality({ k \in 1..Len(stocks) : stocks[k].sku = id }) = 1
        /\ \A k \in 1..Len(stocks) : stocks[k].sku \in Elems(given)

C1_Witness ==
    /\ pc = "fn_stocks"
    /\ Len(given) = MaxIds
    /\ Len(watch_remnants) = 2
    /\ Codes(watch_remnants)[1] = Codes(watch_remnants)[2]
    /\ Codes(watch_remnants)[1] \in Elems(given)
    /\ offer_ids # <<>>

\* C4: create_prices returns one entry per record whose code is in the
\* offer ids, in input order, and nothing else: every entry's id is in the
\* offer ids and is the code of a record.
C4_PricesOnlyForListed ==
    pc = "fn_prices" =>
        LET listed(c) == c \in Elems(given)
        IN  /\ [k \in 1..Len(prices) |-> prices[k].id]
                 = SelectSeq(Codes(watch_remnants), listed)
            /\ \A k \in 1..Len(prices) :
                 /\ prices[k].id \in Elems(given)
                 /\ prices[k].id \in Elems(Codes(watch_remnants))

C4_Witness ==
    /\ pc = "fn_prices"
    /\ Len(prices) = 1
    /\ Len(watch_remnants) = 2
    /\ Len(given) = 2
    /\ prices[1].id = Codes(watch_remnants)[2]
    /\ \E id \in Elems(given) : id \notin Elems(Codes(watch_remnants))

\* the record a sku is matched with: the first record with that code
FirstWith(remnants, sku) ==
    remnants[CHOOSE i \in 1..Len(remnants) :
                 /\ Codes(remnants)[i] = sku
                 /\ \A j \in 1..(i - 1) : Codes(remnants)[j] # sku]

\* C5: an update's count is 100 when the record matching its sku has the
\* quantity ">10", 0 when that quantity is "1" or when no record matches
\* the sku, and the integer value of the quantity otherwise.
C5_CountRule ==
    pc = "fn_stocks" =>
        \A k \in 1..Len(stocks) :
            LET sku == stocks[k].sku
                count == stocks[k].items[1].count
            IN  IF sku \notin Elems(Codes(watch_remnants)) THEN count = 0
                ELSE LET q == FirstWith(watch_remnants, sku).Kolichestvo
                     IN  IF str(q) = <<">", "1", "0">> THEN count = 100
                         ELSE IF str(q) = <<"1">> THEN count = 0
                         ELSE int(q).ok /\ count = int(q).v

C5_Witness ==
    /\ pc = "fn_stocks"
    /\ Updates(stocks) = { <<(<<"A">>), 0>>, <<(<<"7">>), 12>>, <<(<<"Z">>), 0>> }
    /\ Len(watch_remnants) = 2

\* C7 as stated: two create_stocks calls in a row with the same inventory and
\* the same offer-id list give the same (sku, count) pairs.
C7_SameListSameUpdates ==
    pc \in {"fn_same", "fn_equal"} => Updates(stocks2) = Updates(stocks)

\* C7 amended: the second call gives the same (sku, count) pairs when it is
\* handed a new list equal to the first one; handed the list object of the
\* first call, which that call emptied of the matched ids, it gives only the
\* zero updates of the ids no record matches.
C7_EqualListSameUpdates ==
    /\ pc = "fn_equal" => Updates(stocks2) = Updates(stocks)
    /\ pc = "fn_same" =>
         Updates(stocks2) = { u \in Updates(stocks) :
                                  u[1] \notin Elems(Codes(watch_remnants)) }

C7_Witness ==
    /\ pc = "fn_same"
    /\ stocks2 # <<>>
    /\ Len(stocks2) < Len(stocks)
    /\ now = MaxClock

-----------------------------------------------------------------------------
(* Properties of the runs (checked under Spec, SpecPages and SpecBig).     *)

RECURSIVE Flatten(_)
Flatten(lists) == IF lists = <<>> THEN <<>> ELSE Head(lists) \o Flatten(Tail(lists))

\* the log entries of one campaign
Of(campaign) == SelectSeq(log, LAMBDA e : e.camp = campaign)

\* the kinds of a campaign's entries, a run of equal kinds counted once
Stages(campaign) ==
    LET evs == Of(campaign)
        idx == { k \in 1..Len(evs) : k = 1 \/ evs[k - 1].ev # evs[k].ev }
        pick(k) == k \in idx
    IN  [k \in 1..Cardinality(idx) |->
            evs[CHOOSE h \in idx : Cardinality({ g \in idx : g <= h }) = k].ev]

\* bodies of the requests of kind `ev` logged after entry number `from`
Sent(ev, from) ==
    LET sel == SelectSeq([k \in 1..Len(log) |-> [k |-> k, e |-> log[k]]],
                         LAMBDA x : x.k > from /\ x.e.ev = ev)
    IN  [k \in 1..Len(sel) |-> sel[k].e.body]

\* number of the last log entry of kind `ev` (0 if none)
Last(ev) ==
    IF \E k \in 1..Len(log) : log[k].ev = ev
    THEN CHOOSE k \in 1..Len(log) :
             log[k].ev = ev /\ \A h \in (k + 1)..Len(log) : log[h].ev # ev
    ELSE 0

\* C2 as stated: a run of main in which no request fails does, per campaign,
\* fetch, reconcile, submit the stock batches, fetch again, build the prices
\* and submit the price batches, FBS before DBS; every price built for the
\* campaign has been submitted when the run ends.
C2_MainRunsBothPhases ==
    (entry = "main" /\ pc = "done" /\ outcome = "returned") =>
        /\ \A c \in Campaigns :
             /\ SelectSeq(Stages(c), LAMBDA k : k \notin {"PUT", "POST"})
                  = <<"GET", "get_offer_ids", "create_stocks",
                      "GET", "get_offer_ids", "create_prices">>
             /\ \A k \in 1..Len(Of(c)) :
                  Of(c)[k].ev = "get_offer_ids" =>
                      LET built == create_prices(watch_remnants, Of(c)[k].body).prices
                          posted == Flatten(SelectSeq(
                                        [h \in 1..Len(Of(c)) |->
                                            IF Of(c)[h].ev = "POST" THEN Of(c)[h].body
                                            ELSE <<>>],
                                        LAMBDA b : TRUE))
                      IN  Elems(built) \subseteq Elems(posted)
        /\ \A i, j \in 1..Len(log) :
             (log[i].camp = "FBS" /\ log[j].camp = "DBS") => i < j

\* C3 as stated: when a request of the FBS part of main fails with a transport
\* error, the DBS part still runs: its offer ids are fetched.
C3_DbsRunsAfterFbsFailure ==
    (entry = "main" /\ pc = "done"
         /\ \E i \in 1..Len(log) : log[i].camp = "FBS" /\ log[i].status \in Failures)
    => \E j \in 1..Len(log) : log[j].camp = "DBS" /\ log[j].ev = "GET"

\* what the listing answered to the request logged as entry number k
Answer(k) == server[log[k].camp][log[k].tok.s]

\* number of the first request of the get_offer_ids call that entry j ends
FirstRequest(j) ==
    CHOOSE a \in 1..j :
        /\ \A k \in a..(j - 1) : log[k].ev = "GET"
        /\ a = 1 \/ log[a - 1].ev # "GET"

\* C6: get_offer_ids sends an empty page token first, then each time the
\* nextPageToken of the previous answer; the first answer whose token is
\* missing or empty ends the call, with no request after it; the call returns
\* the shopSku of every entry of every page, in the order received, repeats
\* included.
C6_Pagination ==
    \A k \in 1..Len(log) :
        /\ (log[k].ev = "GET" /\ (k = 1 \/ log[k - 1].ev # "GET"))
               => log[k].tok = PyStr(<<>>)
        /\ (log[k].ev = "GET" /\ k > 1 /\ log[k - 1].ev = "GET")
               => /\ log[k - 1].status = "ok"
                  /\ log[k].camp = log[k - 1].camp
                  /\ log[k].tok = Answer(k - 1).paging.nextPageToken
                  /\ ~Falsy(log[k].tok)
        /\ (log[k].ev = "GET" /\ log[k].status = "ok"
                /\ Falsy(Answer(k).paging.nextPageToken))
               => /\ k < Len(log)
                  /\ log[k + 1].ev = "get_offer_ids"
        /\ log[k].ev = "get_offer_ids"
               => /\ k > 1
                  /\ log[k - 1].ev = "GET"
                  /\ Falsy(Answer(k - 1).paging.nextPageToken)
                  /\ log[k].body =
                        Flatten([h \in 1..(k - FirstRequest(k)) |->
                            LET entries == Answer(FirstRequest(k) + h - 1).offerMappingEntries
                            IN  [g \in 1..Len(entries) |-> entries[g].offer.shopSku]])

C6_Witness ==
    /\ Len(log) >= 4
    /\ \A k \in 1..3 : log[k].ev = "GET" /\ log[k].status = "ok"
    /\ log[2].tok # log[3].tok
    /\ log[4].ev = "get_offer_ids"
    /\ log[4].tok = PyNone
    /\ Len(log[4].body) = 4
    /\ ~Distinct(log[4].body)

\* C8: every stock batch sent has 1 to 2000 updates and every price batch
\* sent has 1 to 500; when the loop over the stock batches has ended, the
\* batches sent for this campaign, put end to end in the order sent, are the
\* list create_stocks returned, and likewise the price batches are the list
\* create_prices returned; an empty list sends no request.
C8_BatchesPartition ==
    /\ \A k \in 1..Len(log) :
         /\ log[k].ev = "PUT" => Len(log[k].body) \in 1..2000
         /\ log[k].ev = "POST" => Len(log[k].body) \in 1..500
    /\ pc = "put" =>
         Flatten(Sent("PUT", Last("create_stocks"))) \o Flatten(todo) = stocks
    /\ pc = "post" =>
         Flatten(Sent("POST", Last("create_prices"))) \o Flatten(todo) = prices

C8_Witness ==
    /\ entry = "upload_stocks"
    /\ pc = "put"
    /\ todo = <<>>
    /\ Len(stocks) > 2000
    /\ Len(Sent("PUT", Last("create_stocks"))) >= 2
    /\ Len(Sent("PUT", Last("create_stocks"))[1]) = 2000

\* a quantity none of the rules accepts: not ">10", not "1", not an integer
Unparsable(q) ==
    /\ str(q) # <<">", "1", "0">>
    /\ str(q) # <<"1">>
    /\ ~int(q).ok

\* C9 as stated: if any record of the inventory has such a quantity,
\* create_stocks raises and no stock batch of that pass is sent.
C9_AnyUnparsableRecordFails ==
    \A k \in 1..Len(log) :
        (log[k].ev = "create_stocks"
             /\ \E i \in 1..Len(watch_remnants) :
                    Unparsable(watch_remnants[i].Kolichestvo))
        => /\ log[k].status = "ValueError"
           /\ \A h \in (k + 1)..Len(log) : log[h].ev # "PUT"

\* record i is reached with its code still in a list of distinct ids: the
\* code is in the list and no earlier record has it
Reached(remnants, i, ids) ==
    /\ Codes(remnants)[i] \in Elems(ids)
    /\ \A j \in 1..(i - 1) : Codes(remnants)[j] # Codes(remnants)[i]

\* C9 amended: if a record whose code is in the offer-id list when the loop
\* reaches it has such a quantity, create_stocks raises, returns no list, and
\* no stock batch of that pass is sent; a record whose code is not in the list
\* is skipped without its quantity being read.
C9_ListedUnparsableRecordFails ==
    \A k \in 1..Len(log) :
        log[k].ev = "create_stocks" =>
            IF \E i \in 1..Len(watch_remnants) :
                   /\ Reached(watch_remnants, i, log[k].body)
                   /\ Unparsable(watch_remnants[i].Kolichestvo)
            THEN /\ log[k].status = "ValueError"
                 /\ k = Len(log)
                 /\ pc = "done"
                 /\ outcome \in {"printed ERROR_2", "ValueError"}
            ELSE log[k].status = "ok"

C9_Witness ==
    /\ entry = "main"
    /\ camp = "DBS"
    /\ pc = "done"
    /\ log[Len(log)].ev = "create_stocks"
    /\ log[Len(log)].status = "ValueError"
    /\ \E k \in 1..Len(log) : log[k].ev = "PUT" /\ log[k].camp = "FBS"
    /\ Unparsable(watch_remnants[1].Kolichestvo)

\* C10: when create_stocks has returned, the list it was handed holds the ids
\* no record matched, in their original order; and every create_stocks and
\* create_prices call is handed the list that get_offer_ids has just returned
\* for the same campaign.
C10_ListConsumedNeverReused ==
    /\ pc = "put" =>
         offer_ids = SelectSeq(given, LAMBDA id : id \notin Elems(Codes(watch_remnants)))
    /\ \A k \in 1..Len(log) :
         log[k].ev \in {"create_stocks", "create_prices"} =>
             /\ k > 1
             /\ log[k - 1].ev = "get_offer_ids"
             /\ log[k - 1].camp = log[k].camp
             /\ log[k - 1].body = log[k].body

C10_Witness ==
    /\ entry = "main"
    /\ camp = "DBS"
    /\ pc = "put"
    /\ offer_ids # <<>>
    /\ Len(offer_ids) < Len(given)
    /\ Len(given) = 3

====
